---------------------------- MODULE Spec2Model ----------------------------
(***************************************************************************)
(* A model of the benchmark-function catalog (crate benchfun): the trait   *)
(* contracts of lib.rs and the catalog entries of single.rs and multi.rs.  *)
(*                                                                         *)
(* The catalog is a set of pure functions.  The state machine records the  *)
(* last call made by a caller: which entry, which operation, its argument  *)
(* and what the call produced (a value or a panic).                        *)
(*                                                                         *)
(* f64 values.  A value is a record with a kind k:                         *)
(*   "fin"  n/d + e*E64 + u*2^-51, where n/d is a reduced rational, E64 is *)
(*          the f64 constant std::f64::consts::E and u counts units of     *)
(*          2^-51 (the f64 spacing in [2,4), where E64 lies).  Values with *)
(*          e = u = 0 are the ordinary case and are computed exactly; the  *)
(*          e and u parts carry round-to-nearest-even through the sums     *)
(*          that involve E64 (Ackley).                                     *)
(*   "nan"  NaN,   "inf"  an infinity of sign s,                           *)
(*   "sym"  the f64 result of an operation the model does not compute      *)
(*          (cos, exp, sin, sqrt away from their exact points, products    *)
(*          with PI): an uninterpreted term over its operands.             *)
(* The sign of a zero is not kept: -0.0 == 0.0 in every comparison made.   *)
(* A decimal literal (0.26, 5.12) stands for its decimal value.            *)
(* The other values a call returns carry their kind as well: "vec" for a   *)
(* Vec<f64>, "bool" for a bool, "unit" for ().                             *)
(***************************************************************************)
EXTENDS Integers, Sequences, FiniteSets, TLC

\* ------------------------------------------------------------ bounds
\* Longest input vector a caller passes.
MaxLen == 3
\* Largest dimension, besides LOW_D and HIGH_D, asked of minimizer and
\* check_minimizer.
MaxDim == 3
\* Callers calling into the catalog at the same time.
NCallers == 2

\* ------------------------------------------------------- constants
LOW_D == 2
HIGH_D == 137
\* The low 12 bits of the significand of std::f64::consts::E
\* (0x4005BF0A8B145769), i.e. E64 / 2^-51 modulo 4096.
ELow == 1897

\* ------------------------------------------------------- evaluation
\* Op(a) and Op(a, b) with the arguments evaluated once, before the call, as
\* the arguments of a Rust call are: inside Op they are values.
Call1(Op(_), a) == CHOOSE v \in {Op(r) : r \in {a}} : TRUE
Call2(Op(_, _), a, b) == CHOOSE v \in {Op(p[1], p[2]) : p \in {<<a, b>>}} : TRUE

\* ------------------------------------------------------- arithmetic
Abs(a) == IF a < 0 THEN -a ELSE a

RECURSIVE Gcd(_, _)
Gcd(a, b) == IF b = 0 THEN a ELSE Call2(Gcd, b, a % b)

\* The exact value n/d + e*E64 + u*2^-51, n/d reduced, d > 0.
Reduced(n, d, e, u, g) ==
    IF d < 0
    THEN [k |-> "fin", n |-> -(n \div g), d |-> -(d \div g), e |-> e, u |-> u]
    ELSE [k |-> "fin", n |-> n \div g, d |-> d \div g, e |-> e, u |-> u]
Val(n, d, e, u) == Reduced(n, d, e, u, Gcd(Abs(n), Abs(d)))

Rat(n, d) == Val(n, d, 0, 0)
Num(n) == [k |-> "fin", n |-> n, d |-> 1, e |-> 0, u |-> 0]
NAN == [k |-> "nan"]
INFINITY == [k |-> "inf", s |-> 1]
NEG_INFINITY == [k |-> "inf", s |-> -1]
Sym(t) == [k |-> "sym", t |-> t]
\* std::f64::consts::PI and std::f64::consts::E
PI == Sym(<<"PI">>)
E == [k |-> "fin", n |-> 0, d |-> 1, e |-> 1, u |-> 0]

IsFin(a) == a.k = "fin"
IsRat(a) == a.k = "fin" /\ a.e = 0 /\ a.u = 0
IsZero(a) == a.k = "fin" /\ a.n = 0 /\ a.e = 0 /\ a.u = 0
IsNaN(a) == a.k = "nan"

\* The sign (-1, 0, 1) of a "fin" value.  With an E64 part the rational
\* part is a small integer: E64 is about 2.72, and a unit of 2^-51 is below
\* every other non-zero part.
SgnOf(m, u) ==
    IF m > 0 THEN 1 ELSE IF m < 0 THEN -1
    ELSE IF u > 0 THEN 1 ELSE IF u < 0 THEN -1 ELSE 0
Sgn(a) == SgnOf(IF a.e = 0 THEN a.n ELSE 100 * a.n + 272 * a.e * a.d, a.u)

\* The f64 spacing, in units of 2^-51, at a magnitude of m hundredths:
\* 1 in [2,4), 2 in [4,8), 4 in [8,16), 8 in [16,32), ...  Below 2 every
\* multiple of 2^-51 is representable.
RECURSIVE Spacing(_)
Spacing(m) == IF m < 400 THEN 1 ELSE 2 * Spacing(m \div 2)

\* u units of 2^-51 moved onto the multiples of g: r is the remainder of the
\* value modulo g, odd tells that the multiple below is an odd one.
RoundUlps(u, g, r, odd) ==
    IF r = 0 THEN u
    ELSE IF (2 * r > g) \/ (2 * r = g /\ odd) THEN u + (g - r)
    ELSE u - r
RoundLow(u, g, low) == RoundUlps(u, g, low % g, low >= g)
\* The magnitude e*E64 + u*2^-51 (plus an integer) on the grid of spacing g.
RoundMagnitude(e, u, g) == RoundLow(u, g, (e * ELow + u) % (2 * g))
\* Round to nearest, ties to even, of the exact value a (n/d an integer)
\* onto the f64 grid of its binade; s is the sign of a.
RoundSigned(a, s) ==
    IF s = 0 THEN a
    ELSE [a EXCEPT !.u = s * RoundMagnitude(s * a.e, s * a.u,
                                            Spacing(100 * s * a.n + 272 * s * a.e))]
RoundNearestEven(a) == RoundSigned(a, Sgn(a))

Neg_v(a) ==
    CASE a.k = "fin" -> Val(-a.n, a.d, -a.e, -a.u)
      [] a.k = "nan" -> NAN
      [] a.k = "inf" -> [k |-> "inf", s |-> -a.s]
      [] OTHER       -> Sym(<<"neg", a>>)
Neg(a) == Call1(Neg_v, a)

\* a + b in f64.
Add_rounded(a, b, sum) ==
    IF sum.e = 0 /\ sum.u = 0 THEN sum
    ELSE IF sum.d = 1 THEN RoundNearestEven(sum)
    ELSE Sym(<<"add", a, b>>)
Add_fin(a, b, g) ==
    Call1(LAMBDA sum : Add_rounded(a, b, sum),
          Val(a.n * (b.d \div g) + b.n * (a.d \div g),
              a.d * (b.d \div g), a.e + b.e, a.u + b.u))
Add_v(a, b) ==
    CASE IsNaN(a) \/ IsNaN(b) -> NAN
      [] a.k = "inf" /\ b.k = "inf" -> IF a.s = b.s THEN a ELSE NAN
      [] a.k = "inf" /\ IsFin(b) -> a
      [] IsFin(a) /\ b.k = "inf" -> b
      [] IsFin(a) /\ IsFin(b) ->
            Add_fin(a, b, Gcd(a.d, b.d))
      [] OTHER -> Sym(<<"add", a, b>>)
Add(a, b) == Call2(Add_v, a, b)

Sub_v(a, b) ==
    CASE IsNaN(a) \/ IsNaN(b) -> NAN
      [] a.k \in {"fin", "inf"} /\ b.k \in {"fin", "inf"} -> Add(a, Neg(b))
      [] OTHER -> Sym(<<"sub", a, b>>)
Sub(a, b) == Call2(Sub_v, a, b)

\* The terms known to stand for a finite value: PI and 2.0 * PI.
KnownFinite(a) ==
    \/ a.k = "fin"
    \/ a = PI
    \/ a = Sym(<<"mul", Num(2), PI>>)

\* a * b in f64.  Zero times a finite value is zero, zero times an infinity
\* is NaN.
Mul_rat(a, b, g1, g2) ==
    Rat((a.n \div g1) * (b.n \div g2), (a.d \div g2) * (b.d \div g1))
Mul_v(a, b) ==
    CASE IsNaN(a) \/ IsNaN(b) -> NAN
      [] IsRat(a) /\ IsRat(b) ->
            Mul_rat(a, b, Gcd(Abs(a.n), b.d), Gcd(Abs(b.n), a.d))
      [] a.k = "inf" /\ b.k = "inf" -> [k |-> "inf", s |-> a.s * b.s]
      [] a.k = "inf" /\ IsFin(b) ->
            IF IsZero(b) THEN NAN ELSE [k |-> "inf", s |-> a.s * Sgn(b)]
      [] IsFin(a) /\ b.k = "inf" ->
            IF IsZero(a) THEN NAN ELSE [k |-> "inf", s |-> Sgn(a) * b.s]
      [] IsZero(a) /\ KnownFinite(b) -> Num(0)
      [] IsZero(b) /\ KnownFinite(a) -> Num(0)
      [] a = Num(1) -> b
      [] b = Num(1) -> a
      [] OTHER -> Sym(<<"mul", a, b>>)
Mul(a, b) == Call2(Mul_v, a, b)

\* Known to be finite and not zero.
NonZero(a) ==
    \/ a.k = "fin" /\ ~IsZero(a)
    \/ a.k = "sym" /\ a.t[1] = "sqrt" /\ IsRat(a.t[2]) /\ a.t[2].n > 0

\* a / b in f64.  The zero divisors of the catalog are +0.0 (n as f64).
Div_v(a, b) ==
    CASE IsNaN(a) \/ IsNaN(b) -> NAN
      [] IsZero(b) /\ IsZero(a) -> NAN
      [] IsZero(b) /\ IsFin(a) -> [k |-> "inf", s |-> Sgn(a)]
      [] IsRat(a) /\ IsRat(b) -> Rat(a.n * b.d, a.d * b.n)
      [] IsZero(a) /\ NonZero(b) -> Num(0)
      [] b = Num(1) -> a
      [] OTHER -> Sym(<<"div", a, b>>)
Div(a, b) == Call2(Div_v, a, b)

\* f64::powi
RECURSIVE powi_v(_, _)
powi_v(a, i) == IF i = 0 THEN Num(1) ELSE Mul(powi_v(a, i - 1), a)
powi(a, i) == Call2(powi_v, a, i)

\* f64::powf with the exponent 0.0: pow(x, 0) is 1 for every x, NaN included.
powf_v(a, alpha) ==
    IF IsZero(alpha) THEN Num(1) ELSE Sym(<<"powf", a, alpha>>)
powf(a, alpha) == Call2(powf_v, a, alpha)

\* The largest s with s * s <= m, for 0 <= lo and m < hi * hi.
RECURSIVE IsqrtIn(_, _, _)
IsqrtIn(m, lo, hi) ==
    IF hi - lo <= 1 THEN lo
    ELSE CHOOSE v \in {IF mid * mid <= m THEN IsqrtIn(m, mid, hi) ELSE IsqrtIn(m, lo, mid) :
                       mid \in {(lo + hi) \div 2}} : TRUE

Isqrt(m) == IsqrtIn(m, 0, 46341)

\* f64::sqrt is correctly rounded: exact on the squares of rationals.
sqrt_v(a) ==
    CASE IsNaN(a) -> NAN
      [] IsRat(a) /\ a.n < 0 -> NAN
      [] a.k = "inf" -> IF a.s > 0 THEN a ELSE NAN
      [] IsRat(a) /\ Isqrt(a.n) * Isqrt(a.n) = a.n /\ Isqrt(a.d) * Isqrt(a.d) = a.d ->
            Rat(Isqrt(a.n), Isqrt(a.d))
      [] OTHER -> Sym(<<"sqrt", a>>)
sqrt(a) == Call1(sqrt_v, a)

\* f64::cos and f64::sin: cos(0) = 1 and sin(0) = 0 exactly, NaN at an
\* infinity.
cos_v(a) ==
    CASE IsNaN(a) -> NAN
      [] a.k = "inf" -> NAN
      [] IsZero(a) -> Num(1)
      [] OTHER -> Sym(<<"cos", a>>)
cos(a) == Call1(cos_v, a)

sin_v(a) ==
    CASE IsNaN(a) -> NAN
      [] a.k = "inf" -> NAN
      [] IsZero(a) -> Num(0)
      [] OTHER -> Sym(<<"sin", a>>)
sin(a) == Call1(sin_v, a)

\* f64::exp: exp(0) = 1 exactly.  exp(1.0) is the platform's libm result,
\* within one unit in the last place of E64: E64 + ulps * 2^-51.
exp_v(a, ulps) ==
    CASE IsNaN(a) -> NAN
      [] a.k = "inf" -> IF a.s > 0 THEN a ELSE Num(0)
      [] IsZero(a) -> Num(1)
      [] a = Num(1) -> Val(0, 1, 1, ulps)
      [] OTHER -> Sym(<<"exp", a>>)
exp(a, ulps) == Call2(exp_v, a, ulps)

\* The comparisons of f64: every comparison with NaN is false.
Lt(a, b) ==
    CASE IsNaN(a) \/ IsNaN(b) -> FALSE
      [] a.k = "inf" /\ b.k = "inf" -> a.s < b.s
      [] a.k = "inf" -> a.s < 0
      [] b.k = "inf" -> b.s > 0
      [] OTHER -> Sgn(Add(a, Neg(b))) < 0

Gt(a, b) == Lt(b, a)

Eq(a, b) ==
    CASE IsNaN(a) \/ IsNaN(b) -> FALSE
      [] OTHER -> a = b

Le(a, b) == Lt(a, b) \/ Eq(a, b)
Ge(a, b) == Le(b, a)

\* vec![v; n]
Repeat(v, n) == [i \in 1..n |-> v]

\* x[i] of a Vec, indexed from 0 as in the source.
At(x, i) == x[i + 1]

\* The values other than f64 that a call returns: a Vec<f64>, a bool, ().
Vec(v) == [k |-> "vec", v |-> v]
Bool(b) == [k |-> "bool", b |-> b]
Unit == [k |-> "unit"]

\* What a call produces: a value, or a panic of some kind.
Ok(v) == [err |-> "none", val |-> v]
Panic(kind) == [err |-> kind, val |-> Unit]

\* ---------------------------------------------------------- the catalog
SingleObjective ==
    {"Sphere", "Rastrigin", "Rosenbrock", "Ackley", "Matyas", "Griewank",
     "Ridge", "Zakharov", "Salomon", "RosenbrockConst1", "RosenbrockConst2"}

\* A constrained single-objective entry given the multi-objective trait too.
MultiObjective_and_RosenbrockConst1 ==
    {"ChankongHaimes", "FonsecaFlemming", "Viennet", "RosenbrockConst1"}

MultiObjective == {"ChankongHaimes", "FonsecaFlemming", "Viennet"}

Entries == SingleObjective \cup MultiObjective

NDimensional ==
    {"Sphere", "Rastrigin", "Rosenbrock", "Ackley", "Matyas", "Griewank",
     "Ridge", "Zakharov", "Salomon", "FonsecaFlemming"}

FixedDimensional ==
    {"RosenbrockConst1", "RosenbrockConst2", "ChankongHaimes", "Viennet"}

UnBounded == {"Sphere", "RosenbrockConst1", "RosenbrockConst2"}

Bounded == Entries \ UnBounded

Constrained == {"RosenbrockConst1", "RosenbrockConst2", "ChankongHaimes"}

UnConstrained == Entries \ Constrained

\* FixedDimensional::D
D(F) == 2

\* MultiObjective::NF
NF(F) == IF F = "Viennet" THEN 3 ELSE 2

\* Constrained::NH and Constrained::NG
NH(F) == 0
NG(F) == IF F = "RosenbrockConst2" THEN 1 ELSE 2

\* SingleObjective::MINIMUM
MINIMUM(F) == IF F = "Ridge" THEN Num(-5) ELSE Num(0)

\* Bounded::BOUNDS of the entries that implement Bounded
Bounded_BOUNDS(F) ==
    CASE F = "Rastrigin"       -> <<Rat(-512, 100), Rat(512, 100)>>
      [] F = "Rosenbrock"      -> <<Num(-5), Num(10)>>
      [] F = "Ackley"          -> <<Num(-5), Num(5)>>
      [] F = "Matyas"          -> <<Num(-10), Num(10)>>
      [] F = "Griewank"        -> <<Num(-600), Num(600)>>
      [] F = "Ridge"           -> <<Num(-5), Num(5)>>
      [] F = "Zakharov"        -> <<Num(-5), Num(10)>>
      [] F = "Salomon"         -> <<Num(-100), Num(100)>>
      [] F = "ChankongHaimes"  -> <<Num(-20), Num(20)>>
      [] F = "FonsecaFlemming" -> <<Num(-4), Num(4)>>
      [] F = "Viennet"         -> <<Num(-3), Num(3)>>

\* UnBounded::BOUNDS, the sentinel pair
UnBounded_BOUNDS == <<INFINITY, INFINITY>>

BOUNDS(F) == IF F \in UnBounded THEN UnBounded_BOUNDS ELSE Bounded_BOUNDS(F)

\* ------------------------------------------------ the trait contracts
\* Bounded::in_bounds: the loop over the elements, left at the first
\* element below BOUNDS.0 or above BOUNDS.1, which is the first i with
\* out_of_bounds(b, x, i).
out_of_bounds(b, x, i) == Lt(At(x, i), b[1]) \/ Gt(At(x, i), b[2])

\* The loop with the bounds themselves left out: <= and >= for < and >.
Bounded_in_bounds_exclusive(b, x) ==
    \A i \in 1..Len(x) : ~(Le(x[i], b[1]) \/ Ge(x[i], b[2]))

Bounded_in_bounds(b, x) ==
    IF \E i \in 0..(Len(x) - 1) : out_of_bounds(b, x, i) THEN FALSE ELSE TRUE

\* UnBounded::in_bounds: every input is accepted.
UnBounded_in_bounds(x) == TRUE

\* Every entry tested against its BOUNDS pair, the sentinel included.
in_bounds_by_range(F, x) == Bounded_in_bounds(BOUNDS(F), x)

in_bounds(F, x) ==
    IF F \in UnBounded THEN UnBounded_in_bounds(x)
    ELSE Bounded_in_bounds(Bounded_BOUNDS(F), x)

\* FixedDimensional::check_input: the kind of failure, "none" when the
\* length is D.
check_input(F, x) == IF Len(x) # D(F) THEN "DimensionMismatch" ELSE "none"

\* ---------------------------------------------------------- loops
\* for i in lo..hi { acc = Body(x, i, acc) }, also the form of
\* "for xi in x" (lo = 0, hi = x.len()).  The range is run in two halves,
\* the first half's result computed before the second starts, which bounds
\* the depth of evaluation by log(hi - lo); the bodies run in index order.
RECURSIVE For(_, _, _, _, _)
For(Body(_, _, _), x, lo, hi, acc) ==
    IF lo >= hi THEN acc
    ELSE IF hi - lo = 1 THEN Body(x, lo, acc)
    ELSE LET mid == (lo + hi) \div 2
         IN  CHOOSE v \in {For(Body, x, mid, hi, left) :
                           left \in {For(Body, x, lo, mid, acc)}} : TRUE

\* ------------------------------------------------- single-objective f
Sphere_body(x, i, acc) == Sub(acc, powi(At(x, i), 2))

Sphere_f(x) == Ok(For(Sphere_body, x, 0, Len(x), Num(0)))

Rastrigin_body(x, i, fx) ==
    Add(fx, Sub(powi(At(x, i), 2),
                Mul(Num(10), cos(Mul(Mul(Num(2), At(x, i)), PI)))))

\* f with the bounds consulted first: an input outside BOUNDS is refused.
Rastrigin_f_checked(x) ==
    IF Bounded_in_bounds(Bounded_BOUNDS("Rastrigin"), x)
    THEN Ok(For(Rastrigin_body, x, 0, Len(x), Mul(Num(10), Num(Len(x)))))
    ELSE Panic("OutOfBounds")

Rastrigin_f(x) ==
    Ok(For(Rastrigin_body, x, 0, Len(x), Mul(Num(10), Num(Len(x)))))

Rosenbrock_body(x, i, fx) ==
    Add(fx, Add(Mul(Num(100), powi(Sub(At(x, i + 1), powi(At(x, i), 2)), 2)),
                powi(Sub(Num(1), At(x, i)), 2)))

\* The loop run over 0..n: x[i+1] is out of range at i = n - 1, and x[0] on
\* an empty input is never read.
Rosenbrock_f_to_n(x, overflow_checks) ==
    IF Len(x) = 0 THEN Ok(Num(0)) ELSE Panic("IndexOutOfBounds")

\* n - 1 on an empty input: with overflow checks the subtraction panics;
\* without, it wraps to usize::MAX and x[1] is out of range at i = 0.
Rosenbrock_f(x, overflow_checks) ==
    LET n == Len(x)
    IN  IF n = 0
        THEN Panic(IF overflow_checks THEN "Overflow" ELSE "IndexOutOfBounds")
        ELSE Ok(For(Rosenbrock_body, x, 0, n - 1, Num(0)))

Ackley_body(x, i, s) ==
    [square_sum |-> Add(s.square_sum, powi(At(x, i), 2)),
     cosine_sum |-> Add(s.cosine_sum, cos(Mul(Mul(Num(2), PI), At(x, i))))]

\* fx += -20 exp(-0.2 sqrt(0.5 square_sum)), starting from fx = 0.0
Ackley_fx1(s, ulps) ==
    Add(Num(0),
        Mul(Num(-20),
            exp(Mul(Rat(-2, 10), sqrt(Mul(Rat(5, 10), s.square_sum))), ulps)))

\* fx -= exp(cosine_sum / n)
Ackley_fx2(s, n, ulps) ==
    Sub(Ackley_fx1(s, ulps), exp(Div(s.cosine_sum, Num(n)), ulps))

\* The sum taken in another order: fx + 20.0 + E
Ackley_tail_reordered(fx) == Add(Add(fx, Num(20)), E)

\* fx + E + 20.0
Ackley_tail(fx) == Add(Add(fx, E), Num(20))

Ackley_f(x, ulps) ==
    Call1(LAMBDA s : Ok(Ackley_tail(Ackley_fx2(s, Len(x), ulps))),
          For(Ackley_body, x, 0, Len(x),
              [square_sum |-> Num(0), cosine_sum |-> Num(0)]))

Matyas_body(x, i, s) ==
    [square_sum |-> Add(s.square_sum, powi(At(x, i), 2)),
     prod       |-> Mul(s.prod, At(x, i))]

Matyas_f(x) ==
    Call1(LAMBDA s : Ok(Sub(Mul(Rat(26, 100), s.square_sum),
                            Mul(Rat(48, 100), s.prod))),
          For(Matyas_body, x, 0, Len(x), [square_sum |-> Num(0), prod |-> Num(1)]))

Griewank_body(x, i, s) ==
    [cosine_prod |-> Mul(s.cosine_prod, cos(Div(At(x, i), sqrt(Num(i + 1))))),
     square_sum  |-> Add(s.square_sum, powi(At(x, i), 2))]

Griewank_f(x) ==
    Call1(LAMBDA s : Ok(Sub(Add(Num(1), Div(s.square_sum, Num(4000))),
                            s.cosine_prod)),
          For(Griewank_body, x, 0, Len(x),
              [cosine_prod |-> Num(1), square_sum |-> Num(0)]))

Ridge_body(x, i, square_sum) == Add(square_sum, powi(At(x, i), 2))

\* The exponent of the reference formula: alpha = 0.5
Ridge_f_alpha_half(x) ==
    IF Len(x) = 0 THEN Panic("IndexOutOfBounds")
    ELSE Ok(Add(Add(Num(-1), At(x, 0)),
                Mul(Num(1), powf(For(Ridge_body, x, 1, Len(x), Num(0)), Rat(1, 2)))))

\* The loop is over x.iter().skip(1); x[0] is out of range on an empty input.
Ridge_f(x) ==
    LET d == Num(1)
        alpha == Num(0)
        square_sum == For(Ridge_body, x, 1, Len(x), Num(0))
    IN  IF Len(x) = 0 THEN Panic("IndexOutOfBounds")
        ELSE Ok(Add(Add(Num(-1), At(x, 0)), Mul(d, powf(square_sum, alpha))))

Zakharov_body(x, i, s) ==
    [square_sum |-> Add(s.square_sum, powi(At(x, i), 2)),
     sum_ixi    |-> Add(s.sum_ixi, Mul(Mul(Rat(5, 10), At(x, i)), Num(i)))]

Zakharov_f(x) ==
    Call1(LAMBDA s : Ok(Add(Add(s.square_sum, powi(s.sum_ixi, 2)),
                            powi(s.sum_ixi, 4))),
          For(Zakharov_body, x, 0, Len(x),
              [square_sum |-> Num(0), sum_ixi |-> Num(0)]))

Salomon_body(x, i, square_sum) == Add(square_sum, powi(At(x, i), 2))

Salomon_f(x) ==
    Call1(LAMBDA square_sum :
            Ok(Add(Sub(Num(1), cos(Mul(Mul(Num(2), PI), sqrt(square_sum)))),
                   Mul(Rat(1, 10), sqrt(square_sum)))),
          For(Salomon_body, x, 0, Len(x), Num(0)))

\* The objective shared by RosenbrockConst1::f and RosenbrockConst2::f.
RosenbrockConst_value(x) ==
    Add(powi(Sub(Num(1), At(x, 0)), 2),
        Mul(Num(100), powi(Sub(At(x, 1), powi(At(x, 0), 2)), 2)))

RosenbrockConst1_f(x) ==
    IF check_input("RosenbrockConst1", x) # "none"
    THEN Panic(check_input("RosenbrockConst1", x))
    ELSE Ok(RosenbrockConst_value(x))

RosenbrockConst2_f(x) ==
    IF check_input("RosenbrockConst2", x) # "none"
    THEN Panic(check_input("RosenbrockConst2", x))
    ELSE Ok(RosenbrockConst_value(x))

\* -------------------------------------------------------- minimizer
\* The dimension written into the minimizer: vec![0.0; 2]
Zero_minimizer_fixed(n) == Ok(Vec(Repeat(Num(0), 2)))

\* vec![0.0; n], the minimizer of Sphere, Rastrigin, Ackley, Matyas,
\* Griewank, Zakharov and Salomon.
Zero_minimizer(n) == Ok(Vec(Repeat(Num(0), n)))

Rosenbrock_minimizer(n) == Ok(Vec(Repeat(Num(1), n)))

\* The first coordinate set to the lower bound of another entry:
\* v[0] = -5.12
Ridge_minimizer_other_bound(n) ==
    IF n = 0 THEN Panic("IndexOutOfBounds")
    ELSE Ok(Vec([Repeat(Num(0), n) EXCEPT ![1] = Rat(-512, 100)]))

\* v[0] = -5.0 on vec![0.0; n]: out of range when n = 0.
Ridge_minimizer(n) ==
    LET v == Repeat(Num(0), n)
    IN  IF n = 0 THEN Panic("IndexOutOfBounds")
        ELSE Ok(Vec([v EXCEPT ![1] = Num(-5)]))

\* RosenbrockConst1::minimizer and RosenbrockConst2::minimizer: vec![1.0; 2],
\* whatever _n is.
RosenbrockConst_minimizer(n) == Ok(Vec(Repeat(Num(1), 2)))

minimizer(F, n) ==
    CASE F = "Rosenbrock" -> Rosenbrock_minimizer(n)
      [] F = "Ridge" -> Ridge_minimizer(n)
      [] F \in {"RosenbrockConst1", "RosenbrockConst2"} -> RosenbrockConst_minimizer(n)
      [] OTHER -> Zero_minimizer(n)

\* ------------------------------------------------------- constraints
\* The vector sized by the other count: vec![0.0; Self::NG]
equality_constraints_by_NG(F, x) == Ok(Vec(Repeat(Num(0), NG(F))))

\* vec![0.0; Self::NH]
equality_constraints(F, x) == Ok(Vec(Repeat(Num(0), NH(F))))

\* The second constraint with the sign of its constant turned:
\* fx[1] = x[0] + x[1] + 2.0
RosenbrockConst1_inequality_constraints_plus(x) ==
    IF Len(x) < 2 THEN Panic("IndexOutOfBounds")
    ELSE Ok(Vec(<<Add(Sub(powi(Sub(At(x, 0), Num(1)), 3), At(x, 1)), Num(1)),
                  Add(Add(At(x, 0), At(x, 1)), Num(2))>>))

RosenbrockConst1_inequality_constraints(x) ==
    LET fx == Repeat(Num(0), NG("RosenbrockConst1"))
    IN  IF Len(x) < 2 THEN Panic("IndexOutOfBounds")
        ELSE Ok(Vec([fx EXCEPT
                   ![1] = Add(Sub(powi(Sub(At(x, 0), Num(1)), 3), At(x, 1)), Num(1)),
                   ![2] = Sub(Add(At(x, 0), At(x, 1)), Num(2))]))

RosenbrockConst2_inequality_constraints(x) ==
    LET fx == Repeat(Num(0), NG("RosenbrockConst2"))
    IN  IF Len(x) < 2 THEN Panic("IndexOutOfBounds")
        ELSE Ok(Vec([fx EXCEPT
                   ![1] = Sub(Add(powi(At(x, 0), 2), powi(At(x, 1), 2)), Num(2))]))

\* The two constraints written in the other order.
ChankongHaimes_inequality_constraints_swapped(x) ==
    IF Len(x) < 2 THEN Panic("IndexOutOfBounds")
    ELSE Ok(Vec(<<Add(Sub(At(x, 0), Mul(Num(3), At(x, 1))), Num(10)),
                  Sub(Add(powi(At(x, 0), 2), powi(At(x, 1), 2)), Num(225))>>))

\* The constraints behind the length check that f makes.
ChankongHaimes_inequality_constraints_checked(x) ==
    IF check_input("ChankongHaimes", x) # "none"
    THEN Panic(check_input("ChankongHaimes", x))
    ELSE Ok(Vec(<<Sub(Add(powi(At(x, 0), 2), powi(At(x, 1), 2)), Num(225)),
                  Add(Sub(At(x, 0), Mul(Num(3), At(x, 1))), Num(10))>>))

ChankongHaimes_inequality_constraints(x) ==
    LET fx == Repeat(Num(0), NG("ChankongHaimes"))
    IN  IF Len(x) < 2 THEN Panic("IndexOutOfBounds")
        ELSE Ok(Vec([fx EXCEPT
                   ![1] = Sub(Add(powi(At(x, 0), 2), powi(At(x, 1), 2)), Num(225)),
                   ![2] = Add(Sub(At(x, 0), Mul(Num(3), At(x, 1))), Num(10))]))

inequality_constraints(F, x) ==
    CASE F = "RosenbrockConst1" -> RosenbrockConst1_inequality_constraints(x)
      [] F = "RosenbrockConst2" -> RosenbrockConst2_inequality_constraints(x)
      [] F = "ChankongHaimes" -> ChankongHaimes_inequality_constraints(x)

\* -------------------------------------------------- multi-objective f
ChankongHaimes_fx(x) ==
    [Repeat(Num(0), NF("ChankongHaimes")) EXCEPT
       ![1] = Sub(Add(Num(2), powi(Sub(At(x, 0), Num(2)), 2)),
                  powi(Sub(At(x, 1), Num(1)), 2)),
       ![2] = Sub(Mul(Num(9), At(x, 0)), powi(Sub(At(x, 1), Num(1)), 2))]

\* f without the call of check_input: x[0] and x[1] are read whatever the
\* length, out of range on a shorter input.
ChankongHaimes_f_unchecked(x) ==
    IF Len(x) < 2 THEN Panic("IndexOutOfBounds") ELSE Ok(Vec(ChankongHaimes_fx(x)))

ChankongHaimes_f(x) ==
    IF check_input("ChankongHaimes", x) # "none"
    THEN Panic(check_input("ChankongHaimes", x))
    ELSE Ok(Vec(ChankongHaimes_fx(x)))

FonsecaFlemming_sums(x, i, s, nsqrt) ==
    [sumxminus |-> Add(s.sumxminus, powi(Sub(At(x, i), Div(Num(1), nsqrt)), 2)),
     sumxplus  |-> Add(s.sumxplus, powi(Add(At(x, i), Div(Num(1), nsqrt)), 2))]

FonsecaFlemming_body(x, i, s) ==
    Call1(LAMBDA nsqrt : FonsecaFlemming_sums(x, i, s, nsqrt), sqrt(Num(Len(x))))

FonsecaFlemming_f(x) ==
    Call1(LAMBDA s :
            Ok(Vec([Repeat(Num(0), NF("FonsecaFlemming")) EXCEPT
                      ![1] = Sub(Num(1), exp(Neg(s.sumxminus), 0)),
                      ![2] = Sub(Num(1), exp(Neg(s.sumxplus), 0))])),
          For(FonsecaFlemming_body, x, 0, Len(x),
              [sumxminus |-> Num(0), sumxplus |-> Num(0)]))

\* The third objective left out.
Viennet_fx_two(x, x2y2) ==
    <<Add(Mul(Rat(5, 10), x2y2), sin(x2y2)), Num(15)>>

Viennet_fx(x, x2y2) ==
    [Repeat(Num(0), NF("Viennet")) EXCEPT
       ![1] = Add(Mul(Rat(5, 10), x2y2), sin(x2y2)),
       ![2] = Add(Add(Div(powi(Add(Sub(Mul(Num(3), At(x, 0)),
                                       Mul(Num(2), At(x, 1))), Num(4)), 2),
                          Num(8)),
                      Div(powi(Add(Sub(At(x, 0), At(x, 1)), Num(1)), 2),
                          Num(27))),
                  Num(15)),
       ![3] = Sub(Div(Num(1), Add(x2y2, Num(1))),
                  Mul(Rat(11, 10), exp(Neg(x2y2), 0)))]

Viennet_f(x) ==
    IF check_input("Viennet", x) # "none"
    THEN Panic(check_input("Viennet", x))
    ELSE Call1(LAMBDA x2y2 : Ok(Vec(Viennet_fx(x, x2y2))),
               Add(powi(At(x, 0), 2), powi(At(x, 1), 2)))

\* F::f(x) on a platform env: env.ulps is the error of the libm exp(1.0),
\* env.overflow_checks tells a build with overflow checks from one without.
f(F, x, env) ==
    CASE F = "Sphere" -> Sphere_f(x)
      [] F = "Rastrigin" -> Rastrigin_f(x)
      [] F = "Rosenbrock" -> Rosenbrock_f(x, env.overflow_checks)
      [] F = "Ackley" -> Ackley_f(x, env.ulps)
      [] F = "Matyas" -> Matyas_f(x)
      [] F = "Griewank" -> Griewank_f(x)
      [] F = "Ridge" -> Ridge_f(x)
      [] F = "Zakharov" -> Zakharov_f(x)
      [] F = "Salomon" -> Salomon_f(x)
      [] F = "RosenbrockConst1" -> RosenbrockConst1_f(x)
      [] F = "RosenbrockConst2" -> RosenbrockConst2_f(x)
      [] F = "ChankongHaimes" -> ChankongHaimes_f(x)
      [] F = "FonsecaFlemming" -> FonsecaFlemming_f(x)
      [] F = "Viennet" -> Viennet_f(x)

\* SingleObjective::check_minimizer:
\* assert_eq!(Self::f(Self::minimizer(d)), Self::MINIMUM)
check_minimizer(F, d, env) ==
    Call1(LAMBDA m :
            IF m.err # "none" THEN Panic(m.err)
            ELSE Call1(LAMBDA r :
                         IF r.err # "none" THEN Panic(r.err)
                         ELSE IF Eq(r.val, MINIMUM(F)) THEN Ok(r.val)
                         ELSE [err |-> "AssertionFailed", val |-> r.val],
                       f(F, m.val.v, env)),
          minimizer(F, d))

\* ------------------------------------- the index-loop variant (lib.rs)
\* lib.rs holds an earlier variant of nine of the entries, with the loops
\* written over the indices: for i in 0..n { ... x[i] ... }.
lib_SingleObjective ==
    {"Sphere", "Rastrigin", "Rosenbrock", "Ackley", "Matyas", "Griewank",
     "Ridge", "Zakharov", "Salomon"}

lib_MINIMUM(F) == IF F = "Ridge" THEN Num(-5) ELSE Num(0)

\* f -= x[i] * x[i]
lib_Sphere_body(x, i, acc) == Sub(acc, Mul(At(x, i), At(x, i)))

lib_Sphere_f(x) == Ok(For(lib_Sphere_body, x, 0, Len(x), Num(0)))

lib_Rastrigin_body(x, i, fx) ==
    Add(fx, Sub(powi(At(x, i), 2),
                Mul(Num(10), cos(Mul(Mul(Num(2), At(x, i)), PI)))))

lib_Rastrigin_f(x) ==
    Ok(For(lib_Rastrigin_body, x, 0, Len(x), Mul(Num(10), Num(Len(x)))))

lib_Rosenbrock_body(x, i, fx) ==
    Add(fx, Add(Mul(Num(100), powi(Sub(At(x, i + 1), powi(At(x, i), 2)), 2)),
                powi(Sub(Num(1), At(x, i)), 2)))

lib_Rosenbrock_f(x, overflow_checks) ==
    IF Len(x) = 0
    THEN Panic(IF overflow_checks THEN "Overflow" ELSE "IndexOutOfBounds")
    ELSE Ok(For(lib_Rosenbrock_body, x, 0, Len(x) - 1, Num(0)))

lib_Ackley_body(x, i, s) ==
    [square_sum |-> Add(s.square_sum, powi(At(x, i), 2)),
     cosine_sum |-> Add(s.cosine_sum, cos(Mul(Mul(Num(2), PI), At(x, i))))]

lib_Ackley_end(s, n, ulps) ==
    Add(Add(Sub(Add(Num(0),
                    Mul(Num(-20),
                        exp(Mul(Rat(-2, 10), sqrt(Mul(Rat(5, 10), s.square_sum))),
                            ulps))),
                exp(Div(s.cosine_sum, Num(n)), ulps)),
            E),
        Num(20))

lib_Ackley_f(x, ulps) ==
    Call1(LAMBDA s : Ok(lib_Ackley_end(s, Len(x), ulps)),
          For(lib_Ackley_body, x, 0, Len(x),
              [square_sum |-> Num(0), cosine_sum |-> Num(0)]))

lib_Matyas_body(x, i, s) ==
    [square_sum |-> Add(s.square_sum, powi(At(x, i), 2)),
     prod       |-> Mul(s.prod, At(x, i))]

lib_Matyas_f(x) ==
    Call1(LAMBDA s : Ok(Sub(Mul(Rat(26, 100), s.square_sum),
                            Mul(Rat(48, 100), s.prod))),
          For(lib_Matyas_body, x, 0, Len(x),
              [square_sum |-> Num(0), prod |-> Num(1)]))
lib_Griewank_body(x, i, s) ==
    [square_sum  |-> Add(s.square_sum, powi(At(x, i), 2)),
     cosine_prod |-> Mul(s.cosine_prod, cos(Div(At(x, i), sqrt(Num(i + 1)))))]

lib_Griewank_f(x) ==
    Call1(LAMBDA s : Ok(Sub(Add(Num(1), Div(s.square_sum, Num(4000))),
                            s.cosine_prod)),
          For(lib_Griewank_body, x, 0, Len(x),
              [cosine_prod |-> Num(1), square_sum |-> Num(0)]))

\* for i in 1..n
lib_Ridge_body(x, i, square_sum) == Add(square_sum, powi(At(x, i), 2))

lib_Ridge_f(x) ==
    IF Len(x) = 0 THEN Panic("IndexOutOfBounds")
    ELSE Ok(Add(Add(Num(-1), At(x, 0)),
                Mul(Num(1), powf(For(lib_Ridge_body, x, 1, Len(x), Num(0)), Num(0)))))

\* The weight of the reference formula, counted from 1:
\* sum_ixi += 0.5*x[i]*((i+1) as f64)
lib_Zakharov_body_from_one(x, i, s) ==
    [square_sum |-> Add(s.square_sum, powi(At(x, i), 2)),
     sum_ixi    |-> Add(s.sum_ixi, Mul(Mul(Rat(5, 10), At(x, i)), Num(i + 1)))]

lib_Zakharov_body(x, i, s) ==
    [square_sum |-> Add(s.square_sum, powi(At(x, i), 2)),
     sum_ixi    |-> Add(s.sum_ixi, Mul(Mul(Rat(5, 10), At(x, i)), Num(i)))]

lib_Zakharov_f(x) ==
    Call1(LAMBDA s : Ok(Add(Add(s.square_sum, powi(s.sum_ixi, 2)),
                            powi(s.sum_ixi, 4))),
          For(lib_Zakharov_body, x, 0, Len(x),
              [square_sum |-> Num(0), sum_ixi |-> Num(0)]))

lib_Salomon_body(x, i, square_sum) == Add(square_sum, powi(At(x, i), 2))

lib_Salomon_f(x) ==
    Call1(LAMBDA square_sum :
            Ok(Add(Sub(Num(1), cos(Mul(Mul(Num(2), PI), sqrt(square_sum)))),
                   Mul(Rat(1, 10), sqrt(square_sum)))),
          For(lib_Salomon_body, x, 0, Len(x), Num(0)))

lib_f(F, x, env) ==
    CASE F = "Sphere" -> lib_Sphere_f(x)
      [] F = "Rastrigin" -> lib_Rastrigin_f(x)
      [] F = "Rosenbrock" -> lib_Rosenbrock_f(x, env.overflow_checks)
      [] F = "Ackley" -> lib_Ackley_f(x, env.ulps)
      [] F = "Matyas" -> lib_Matyas_f(x)
      [] F = "Griewank" -> lib_Griewank_f(x)
      [] F = "Ridge" -> lib_Ridge_f(x)
      [] F = "Zakharov" -> lib_Zakharov_f(x)
      [] F = "Salomon" -> lib_Salomon_f(x)

\* vec![0.0; n], but vec![1.0; n] for Rosenbrock and v[0] = -5.0 for Ridge.
lib_minimizer(F, n) ==
    CASE F = "Rosenbrock" -> Ok(Vec(Repeat(Num(1), n)))
      [] F = "Ridge" ->
            IF n = 0 THEN Panic("IndexOutOfBounds")
            ELSE Ok(Vec([Repeat(Num(0), n) EXCEPT ![1] = Num(-5)]))
      [] OTHER -> Ok(Vec(Repeat(Num(0), n)))

\* ------------------------------------------------------- the caller
\* The platforms a call runs on.  Only Ackley reaches exp(1.0) and only
\* Rosenbrock subtracts from a length, so the other entries are run on one
\* platform.
DefaultEnv == [ulps |-> 0, overflow_checks |-> TRUE]

Envs(F) ==
    CASE F = "Ackley" -> {[ulps |-> u, overflow_checks |-> TRUE] : u \in {-1, 0, 1}}
      [] F = "Rosenbrock" -> {[ulps |-> 0, overflow_checks |-> c] : c \in BOOLEAN}
      [] OTHER -> {DefaultEnv}

\* A coordinate whose sums are rounded, passed to Ridge:
\* -3.9999999999999996 = -4 + 2^-51, the f64 next to -4.0 towards zero.
RoundedCoords(F) == IF F = "Ridge" THEN {Val(-4, 1, 0, 1)} ELSE {}

\* The coordinates a caller passes to entry F: around and on the bounds of a
\* bounded entry, NaN, and an infinity for the unbounded ones.
Coords(F) ==
    IF F \in UnBounded
    THEN {Num(-1), Num(0), Num(1), Num(2), NAN, INFINITY}
    ELSE LET lo == Bounded_BOUNDS(F)[1]
             hi == Bounded_BOUNDS(F)[2]
         IN  {Sub(lo, Num(1)), lo, Num(0), Num(1), hi, Add(hi, Num(1)), NAN}
                 \cup RoundedCoords(F)

Inputs(F) == UNION {[1..len -> Coords(F)] : len \in 0..MaxLen}

\* The coordinates passed to in_bounds: those, and one a tenth above the
\* upper bound (5.1 for Ackley).
BoundsCoords(F) ==
    IF F \in UnBounded THEN Coords(F)
    ELSE Coords(F) \cup {Add(Bounded_BOUNDS(F)[2], Rat(1, 10))}

\* The vectors of the tested dimensions: all zero, and all zero but for a
\* last coordinate c.
TestedInputs(c) ==
    UNION {{Repeat(Num(0), n), [Repeat(Num(0), n) EXCEPT ![n] = c]} :
           n \in {LOW_D, HIGH_D}}

BoundsInputs(F) ==
    UNION {[1..len -> BoundsCoords(F)] : len \in 0..MaxLen}
        \cup TestedInputs(IF F \in UnBounded THEN INFINITY
                          ELSE Add(Bounded_BOUNDS(F)[2], Num(1)))

Dims == (0..MaxDim) \cup {LOW_D, HIGH_D}

NoCall == [err |-> "none", val |-> Unit]

VARIABLES
    entry,  \* the catalog entry of the call in progress, "none" between calls
    op,     \* the operation called
    x,      \* its Vec<f64> argument (<<>> when it has none)
    d,      \* its usize argument (0 when it has none)
    env,    \* the platform the call ran on
    ret     \* what the call produced: [err, val]

vars == <<entry, op, x, d, env, ret>>

Init ==
    /\ entry = "none"
    /\ op = "none"
    /\ x = <<>>
    /\ d = 0
    /\ env = DefaultEnv
    /\ ret = NoCall

Idle == op = "none"

\* F::f(x)
Call_f ==
    /\ Idle
    /\ \E F \in Entries : \E xx \in Inputs(F) : \E ev \in Envs(F) :
          /\ entry' = F
          /\ op' = "f"
          /\ x' = xx
          /\ d' = 0
          /\ env' = ev
          /\ ret' = f(F, xx, ev)

\* F::minimizer(n)
Call_minimizer ==
    /\ Idle
    /\ \E F \in SingleObjective : \E n \in Dims :
          /\ entry' = F
          /\ op' = "minimizer"
          /\ x' = <<>>
          /\ d' = n
          /\ env' = DefaultEnv
          /\ ret' = minimizer(F, n)

\* F::check_minimizer(d)
Call_check_minimizer ==
    /\ Idle
    /\ \E F \in SingleObjective : \E n \in Dims : \E ev \in Envs(F) :
          /\ entry' = F
          /\ op' = "check_minimizer"
          /\ x' = <<>>
          /\ d' = n
          /\ env' = ev
          /\ ret' = check_minimizer(F, n, ev)

\* F::in_bounds(x)
Call_in_bounds ==
    /\ Idle
    /\ \E F \in Entries : \E xx \in BoundsInputs(F) :
          /\ entry' = F
          /\ op' = "in_bounds"
          /\ x' = xx
          /\ d' = 0
          /\ env' = DefaultEnv
          /\ ret' = Ok(Bool(in_bounds(F, xx)))

\* F::equality_constraints(x)
Call_equality_constraints ==
    /\ Idle
    /\ \E F \in Constrained : \E xx \in Inputs(F) :
          /\ entry' = F
          /\ op' = "equality_constraints"
          /\ x' = xx
          /\ d' = 0
          /\ env' = DefaultEnv
          /\ ret' = equality_constraints(F, xx)

\* F::inequality_constraints(x)
Call_inequality_constraints ==
    /\ Idle
    /\ \E F \in Constrained : \E xx \in Inputs(F) :
          /\ entry' = F
          /\ op' = "inequality_constraints"
          /\ x' = xx
          /\ d' = 0
          /\ env' = DefaultEnv
          /\ ret' = inequality_constraints(F, xx)

\* The call is over; nothing of it is kept: the catalog holds no state.
Return ==
    /\ ~Idle
    /\ entry' = "none"
    /\ op' = "none"
    /\ x' = <<>>
    /\ d' = 0
    /\ env' = DefaultEnv
    /\ ret' = NoCall

Next ==
    \/ Call_f
    \/ Call_minimizer
    \/ Call_check_minimizer
    \/ Call_in_bounds
    \/ Call_equality_constraints
    \/ Call_inequality_constraints
    \/ Return

Spec == Init /\ [][Next]_vars

\* ------------------------------------------------- concurrent callers
\* Several callers (threads) calling into the catalog at once.  In this
\* specification each variable holds one value per caller: entry[t], op[t],
\* x[t], d[t], env[t] are the call of caller t and ret[t] what it produced.
\* A call takes two steps, so that the calls of different callers overlap in
\* every order: Invoke (the argument is moved into the call) and Complete
\* (the body runs and the result is written).  All callers run on one
\* platform.
Callers == 1..NCallers

\* The call has started and has not produced anything yet.
Pending == [err |-> "pending", val |-> Unit]

\* The calls made concurrently: f of every entry on one input and of two
\* entries on a second one, and each other operation of some entries.
ConcurrentCalls ==
    {[entry |-> F, op |-> "f", x |-> <<Num(1), Num(0)>>, d |-> 0] : F \in Entries}
    \cup {[entry |-> F, op |-> "f", x |-> <<Num(0), Num(0)>>, d |-> 0] :
             F \in {"Sphere", "Viennet"}}
    \cup {[entry |-> F, op |-> "in_bounds", x |-> <<Num(6), Num(0)>>, d |-> 0] :
             F \in {"Sphere", "Ackley"}}
    \cup {[entry |-> F, op |-> "minimizer", x |-> <<>>, d |-> LOW_D] :
             F \in {"Ridge", "RosenbrockConst1"}}
    \cup {[entry |-> "Ackley", op |-> "check_minimizer", x |-> <<>>, d |-> LOW_D]}
    \cup {[entry |-> "ChankongHaimes", op |-> "equality_constraints",
           x |-> <<Num(1), Num(0)>>, d |-> 0]}
    \cup {[entry |-> F, op |-> "inequality_constraints",
           x |-> <<Num(1), Num(0)>>, d |-> 0] : F \in Constrained}

\* The operation o of entry F on the arguments xx and n: what the call
\* produces when it is made alone.
call(F, o, xx, n, ev) ==
    CASE o = "f" -> f(F, xx, ev)
      [] o = "minimizer" -> minimizer(F, n)
      [] o = "check_minimizer" -> check_minimizer(F, n, ev)
      [] o = "in_bounds" -> Ok(Bool(in_bounds(F, xx)))
      [] o = "equality_constraints" -> equality_constraints(F, xx)
      [] o = "inequality_constraints" -> inequality_constraints(F, xx)

\* One argument buffer shared by every caller.
Own_shared(t) == 1

\* The caller whose argument the call of caller t reads: x: Vec<f64> is
\* passed by value, the call owns it and reads nothing else.
Own(t) == t

ConcurrentInit ==
    /\ entry = [t \in Callers |-> "none"]
    /\ op = [t \in Callers |-> "none"]
    /\ x = [t \in Callers |-> <<>>]
    /\ d = [t \in Callers |-> 0]
    /\ env = [t \in Callers |-> DefaultEnv]
    /\ ret = [t \in Callers |-> NoCall]

\* Caller t starts a call.
Invoke(t) ==
    /\ op[t] = "none"
    /\ \E c \in ConcurrentCalls :
          /\ entry' = [entry EXCEPT ![t] = c.entry]
          /\ op' = [op EXCEPT ![t] = c.op]
          /\ x' = [x EXCEPT ![t] = c.x]
          /\ d' = [d EXCEPT ![t] = c.d]
          /\ ret' = [ret EXCEPT ![t] = Pending]
    /\ UNCHANGED env

\* The body of caller t's call runs on its argument and writes its result.
Complete(t) ==
    /\ op[t] # "none"
    /\ ret[t] = Pending
    /\ ret' = [ret EXCEPT ![t] = call(entry[t], op[t], x[Own(t)], d[t], env[t])]
    /\ UNCHANGED <<entry, op, x, d, env>>

\* Caller t takes the result; nothing of the call is kept.
Finish(t) ==
    /\ op[t] # "none"
    /\ ret[t] # Pending
    /\ entry' = [entry EXCEPT ![t] = "none"]
    /\ op' = [op EXCEPT ![t] = "none"]
    /\ x' = [x EXCEPT ![t] = <<>>]
    /\ d' = [d EXCEPT ![t] = 0]
    /\ ret' = [ret EXCEPT ![t] = NoCall]
    /\ UNCHANGED env

ConcurrentNext == \E t \in Callers : Invoke(t) \/ Complete(t) \/ Finish(t)

ConcurrentSpec == ConcurrentInit /\ [][ConcurrentNext]_vars

\* ------------------------------------------------------------ claims
\* C1: the self-check passes.  check_minimizer(n) of every single-objective
\* entry, at n = LOW_D and n = HIGH_D for the arbitrary-dimensional entries
\* and at n = D for RosenbrockConst1 and RosenbrockConst2, completes
\* without a panic: f(minimizer(n)) == MINIMUM exactly, whatever the last
\* bit of the platform's exp(1.0).
C1_SelfCheckPasses ==
    (/\ op = "check_minimizer"
     /\ \/ entry \in NDimensional /\ d \in {LOW_D, HIGH_D}
        \/ entry \in FixedDimensional /\ d = D(entry))
    => (ret.err = "none" /\ Eq(ret.val, MINIMUM(entry)))

C1_Witness ==
    /\ op = "check_minimizer"
    /\ entry = "Ackley"
    /\ d = HIGH_D
    /\ env.ulps = 1
    /\ ret = Ok(Num(0))

\* C2 as stated: minimizer(n) of every single-objective entry returns
\* exactly n elements, for every n.
C2_MinimizerHasNElements ==
    op = "minimizer" => (ret.err = "none" /\ Len(ret.val.v) = d)

\* C2 as amended: minimizer(n) of an arbitrary-dimensional entry returns
\* exactly n elements, except Ridge::minimizer(0), which fails on an index
\* out of range; minimizer(n) of RosenbrockConst1 and RosenbrockConst2
\* returns exactly D = 2 elements whatever n is.
C2_MinimizerLength ==
    op = "minimizer" =>
        IF entry \in FixedDimensional
        THEN ret.err = "none" /\ Len(ret.val.v) = D(entry)
        ELSE IF entry = "Ridge" /\ d = 0
        THEN ret.err = "IndexOutOfBounds"
        ELSE ret.err = "none" /\ Len(ret.val.v) = d

C2_Witness ==
    /\ op = "minimizer"
    /\ entry = "RosenbrockConst1"
    /\ d = HIGH_D
    /\ ret = Ok(Vec(<<Num(1), Num(1)>>))

\* C3: f of a fixed-dimensional entry returns a value on an input of
\* length D and fails with DimensionMismatch on an input of any other
\* length.
C3_FixedDimensionChecked ==
    (op = "f" /\ entry \in FixedDimensional) =>
        IF Len(x) = D(entry)
        THEN ret.err = "none"
        ELSE ret = Panic("DimensionMismatch")

C3_Witness ==
    /\ op = "f"
    /\ entry = "ChankongHaimes"
    /\ Len(x) = D(entry) + 1
    /\ ret.err = "DimensionMismatch"

\* C4 as stated: in_bounds(x) of a bounded entry is true if and only if
\* every coordinate c of x satisfies lo <= c <= hi.
C4_InBoundsIffWithin ==
    (op = "in_bounds" /\ entry \in Bounded) =>
        (ret.val.b <=> \A i \in 1..Len(x) :
                        /\ Le(Bounded_BOUNDS(entry)[1], x[i])
                        /\ Le(x[i], Bounded_BOUNDS(entry)[2]))

\* C5: in_bounds of a bounded entry is true of every all-zero vector and
\* false of every vector with a coordinate equal to hi + 1;
\* Ackley::in_bounds([5.0, 5.0]) is true and Ackley::in_bounds([5.1, 0.0])
\* is false.
C5_ZeroInsideAboveOutside ==
    (op = "in_bounds" /\ entry \in Bounded) =>
        /\ (\A i \in 1..Len(x) : x[i] = Num(0)) => ret.val.b
        /\ (\E i \in 1..Len(x) : x[i] = Add(Bounded_BOUNDS(entry)[2], Num(1)))
              => ~ret.val.b
        /\ (entry = "Ackley" /\ x = <<Num(5), Num(5)>>) => ret.val.b
        /\ (entry = "Ackley" /\ x = <<Rat(51, 10), Num(0)>>) => ~ret.val.b

C5_Witness ==
    /\ op = "in_bounds"
    /\ entry = "Ackley"
    /\ x = <<Rat(51, 10), Num(0)>>
    /\ ret = Ok(Bool(FALSE))

\* C6 as stated: f(x) >= MINIMUM for every single-objective entry and
\* every input x of an accepted length whose coordinates are numbers of the
\* entry's domain (stated of the results the model computes).
C6_MinimumIsLowest ==
    (/\ op = "f"
     /\ entry \in SingleObjective
     /\ IF entry \in FixedDimensional THEN Len(x) = D(entry) ELSE Len(x) >= 1
     /\ \A i \in 1..Len(x) : IsRat(x[i]) /\ in_bounds(entry, <<x[i]>>))
    => /\ ret.err = "none"
       /\ IsFin(ret.val) => Ge(ret.val, MINIMUM(entry))

\* C7: f of a multi-objective entry returns exactly NF elements on a valid
\* input (NF = 2 for ChankongHaimes and FonsecaFlemming, 3 for Viennet).
C7_ObjectiveCount ==
    (/\ op = "f"
     /\ entry \in MultiObjective
     /\ IF entry \in FixedDimensional THEN Len(x) = D(entry) ELSE Len(x) >= 1)
    => /\ ret.err = "none"
       /\ Len(ret.val.v) = NF(entry)
       /\ Len(ret.val.v) = IF entry = "Viennet" THEN 3 ELSE 2

C7_Witness ==
    /\ op = "f"
    /\ entry = "Viennet"
    /\ x = <<Num(0), Num(0)>>
    /\ ret.err = "none"
    /\ Len(ret.val.v) = 3

\* C8: on an input of length D, equality_constraints of a constrained
\* entry returns exactly NH elements, the empty sequence since NH = 0, and
\* inequality_constraints returns exactly NG elements.
C8_ConstraintCounts ==
    (entry \in Constrained /\ Len(x) = D(entry)) =>
        /\ op = "equality_constraints" =>
              ret = Ok(Vec(<<>>)) /\ Len(ret.val.v) = NH(entry)
        /\ op = "inequality_constraints" =>
              ret.err = "none" /\ Len(ret.val.v) = NG(entry)

C8_Witness ==
    /\ op = "equality_constraints"
    /\ entry = "RosenbrockConst2"
    /\ Len(x) = D(entry)
    /\ ret = Ok(Vec(<<>>))

\* C9: ChankongHaimes::inequality_constraints of a 2-element x returns
\* [x0^2 + x1^2 - 225, x0 - 3 x1 + 10] in that order, [-225, 10] at [0, 0].
C9_ChankongHaimesConstraints ==
    (op = "inequality_constraints" /\ entry = "ChankongHaimes" /\ Len(x) = 2) =>
        /\ ret.err = "none"
        /\ ret.val.v = <<Sub(Add(Mul(x[1], x[1]), Mul(x[2], x[2])), Num(225)),
                       Add(Sub(x[1], Mul(Num(3), x[2])), Num(10))>>
        /\ x = <<Num(0), Num(0)>> => ret.val.v = <<Num(-225), Num(10)>>

C9_Witness ==
    /\ op = "inequality_constraints"
    /\ entry = "ChankongHaimes"
    /\ x = <<Num(0), Num(0)>>
    /\ ret = Ok(Vec(<<Num(-225), Num(10)>>))

C11_TotalOnNonEmptyInput ==
    (op = "f" /\ entry \in NDimensional /\ Len(x) >= 1) =>
        /\ ret.err = "none"
        /\ ret.val.k \in (IF entry \in MultiObjective THEN {"vec"}
                          ELSE {"fin", "nan", "inf", "sym"})
        /\ (entry = "Rosenbrock" /\ Len(x) = 1) => ret = Ok(Num(0))

C11_Witness ==
    /\ op = "f"
    /\ entry = "Rosenbrock"
    /\ x = <<NAN>>
    /\ ret = Ok(Num(0))

\* C12: evaluation does not consult the bounds.  On an input of an accepted
\* length that in_bounds rejects, f of a bounded entry neither fails nor
\* returns a special value: it returns an f64 (NF of them for a
\* multi-objective entry), not NaN and not an infinity when the coordinates
\* are numbers, and the value is the one of the entry's formula at x itself,
\* not at x moved into the bounds: written out here for Rosenbrock and
\* Matyas on two coordinates and for ChankongHaimes.
C12_EvaluationIgnoresBounds ==
    (/\ op = "f"
     /\ entry \in Bounded
     /\ IF entry \in FixedDimensional THEN Len(x) = D(entry) ELSE Len(x) >= 1
     /\ ~in_bounds(entry, x))
    => /\ ret.err = "none"
       /\ entry \in MultiObjective =>
             /\ ret.val.k = "vec"
             /\ Len(ret.val.v) = NF(entry)
       /\ (entry \in SingleObjective /\ \A i \in 1..Len(x) : IsRat(x[i])) =>
             ret.val.k \in {"fin", "sym"}
       /\ (entry = "Rosenbrock" /\ Len(x) = 2 /\ IsRat(x[1]) /\ IsRat(x[2])) =>
             ret.val = Add(Mul(Num(100),
                               Mul(Sub(x[2], Mul(x[1], x[1])),
                                   Sub(x[2], Mul(x[1], x[1])))),
                           Mul(Sub(Num(1), x[1]), Sub(Num(1), x[1])))
       /\ (entry = "Matyas" /\ Len(x) = 2 /\ IsRat(x[1]) /\ IsRat(x[2])) =>
             ret.val = Sub(Mul(Rat(26, 100), Add(Mul(x[1], x[1]), Mul(x[2], x[2]))),
                           Mul(Rat(48, 100), Mul(x[1], x[2])))
       /\ (entry = "ChankongHaimes" /\ IsRat(x[1]) /\ IsRat(x[2])) =>
             ret.val.v =
                 <<Sub(Add(Num(2), Mul(Sub(x[1], Num(2)), Sub(x[1], Num(2)))),
                       Mul(Sub(x[2], Num(1)), Sub(x[2], Num(1)))),
                   Sub(Mul(Num(9), x[1]), Mul(Sub(x[2], Num(1)), Sub(x[2], Num(1))))>>

C12_Witness ==
    /\ op = "f"
    /\ entry = "Rosenbrock"
    /\ x = <<Num(11), Num(-6)>>
    /\ ~in_bounds(entry, x)
    /\ ret = Ok(Num(1613000))

\* C13: every catalog entry is exactly one of single-objective and
\* multi-objective.  The structs of the two modules (each declares its
\* dimensionality) are the 11 that implement SingleObjective together with
\* the 3 that implement MultiObjective, and no entry is in both; f of a
\* single-objective entry returns one f64 and f of a multi-objective entry
\* returns a Vec<f64>; minimizer and check_minimizer exist for the
\* single-objective entries only.
C13_ExactlyOneObjective ==
    /\ SingleObjective \cap MultiObjective = {}
    /\ NDimensional \cup FixedDimensional = SingleObjective \cup MultiObjective
    /\ Cardinality(SingleObjective) = 11
    /\ Cardinality(MultiObjective) = 3
    /\ entry # "none" => (entry \in SingleObjective) # (entry \in MultiObjective)
    /\ (op = "f" /\ ret.err = "none") =>
          /\ entry \in SingleObjective <=> ret.val.k \in {"fin", "nan", "inf", "sym"}
          /\ entry \in MultiObjective <=> ret.val.k = "vec"
    /\ op \in {"minimizer", "check_minimizer"} =>
          entry \in SingleObjective \ MultiObjective

C13_Witness ==
    /\ op = "f"
    /\ entry = "ChankongHaimes"
    /\ entry \in MultiObjective \ SingleObjective
    /\ ret.err = "none"
    /\ ret.val.k = "vec"

\* C14: evaluation is referentially transparent and needs no coordination.
\* Under every interleaving of the calls of concurrent callers, a call that
\* has completed has produced exactly what the same call produces alone on
\* the same arguments, and a step of one caller changes nothing of another
\* caller's call: not its arguments and not its result.
C14_Completed(t) == op[t] # "none" /\ ret[t] # Pending

C15_MinimizerInBounds ==
    (op = "minimizer" /\ entry \in Bounded /\ d >= 1) =>
        /\ ret.err = "none"
        /\ in_bounds(entry, ret.val.v)
        /\ \A i \in 1..Len(ret.val.v) :
              /\ Le(Bounded_BOUNDS(entry)[1], ret.val.v[i])
              /\ Le(ret.val.v[i], Bounded_BOUNDS(entry)[2])

C15_Witness ==
    /\ op = "minimizer"
    /\ entry = "Ridge"
    /\ d = HIGH_D
    /\ ret.err = "none"
    /\ ret.val.v[1] = Bounded_BOUNDS(entry)[1]
    /\ in_bounds(entry, ret.val.v)

\* C16: the declared minimizer of RosenbrockConst1 and RosenbrockConst2,
\* minimizer(2) = (1, 1), is feasible: every element that
\* inequality_constraints returns on it is <= 0 (each is 0: the point lies
\* on the boundary) and equality_constraints returns no non-zero element.
C16_MinimizerFeasible ==
    (/\ entry \in {"RosenbrockConst1", "RosenbrockConst2"}
     /\ op \in {"inequality_constraints", "equality_constraints"}
     /\ minimizer(entry, 2) = Ok(Vec(x)))
    => /\ x = <<Num(1), Num(1)>>
       /\ ret.err = "none"
       /\ op = "inequality_constraints" =>
             /\ Len(ret.val.v) = NG(entry)
             /\ \A i \in 1..Len(ret.val.v) : Le(ret.val.v[i], Num(0))
       /\ op = "equality_constraints" =>
             \A i \in 1..Len(ret.val.v) : Eq(ret.val.v[i], Num(0))

C16_Witness ==
    /\ entry = "RosenbrockConst1"
    /\ op = "inequality_constraints"
    /\ minimizer(entry, 2) = Ok(Vec(x))
    /\ ret = Ok(Vec(<<Num(0), Num(0)>>))

\* C17: the constraint evaluators of the fixed-dimensional entries check no
\* length.  On an input longer than D = 2, inequality_constraints returns NG
\* values computed from the first two coordinates alone: the values it
\* returns on the first two coordinates by themselves, and on every other
\* input that agrees on them; equality_constraints returns its empty
\* vector; f of the same entry on the same input fails with
\* DimensionMismatch.
C17_ConstraintsSkipLengthCheck ==
    (entry \in Constrained /\ Len(x) > D(entry)) =>
        /\ op = "inequality_constraints" =>
              /\ ret.err = "none"
              /\ Len(ret.val.v) = NG(entry)
              /\ ret = inequality_constraints(entry, SubSeq(x, 1, D(entry)))
              /\ \A y \in Inputs(entry) :
                    (Len(y) >= D(entry) /\ SubSeq(y, 1, D(entry)) = SubSeq(x, 1, D(entry)))
                        => inequality_constraints(entry, y) = ret
        /\ op = "equality_constraints" => ret = Ok(Vec(<<>>))
        /\ op = "f" => ret = Panic("DimensionMismatch")

C17_Witness ==
    /\ entry = "ChankongHaimes"
    /\ op = "inequality_constraints"
    /\ x = <<Num(0), Num(0), Num(21)>>
    /\ ret = Ok(Vec(<<Num(-225), Num(10)>>))
    /\ f(entry, x, env) = Panic("DimensionMismatch")

\* C18 as stated: Ridge::f(x) = x[0] for every input x of length >= 1.
C18_RidgeIsFirstCoordinate ==
    (op = "f" /\ entry = "Ridge" /\ Len(x) >= 1) => ret = Ok(x[1])

\* C18 as amended: Ridge::f depends on the first coordinate only.  The term
\* d * square_sum.powf(alpha) is 1.0 whatever the other coordinates are, so
\* on every input of length >= 1 f returns what it returns on [x[0]] alone:
\* the f64 sum (-1.0 + x[0]) + 1.0.  That is x[0] itself when x[0] is an
\* integer (the minimizer's -5.0) or NaN, and the rounded sum otherwise:
\* -4.0 at x[0] = -3.9999999999999996.
C18_RidgeDependsOnFirstOnly ==
    (op = "f" /\ entry = "Ridge" /\ Len(x) >= 1) =>
        /\ ret.err = "none"
        /\ ret = f(entry, <<x[1]>>, env)
        /\ ret.val = Add(Add(Num(-1), x[1]), Num(1))
        /\ (IsNaN(x[1]) \/ (IsRat(x[1]) /\ x[1].d = 1)) => ret.val = x[1]
        /\ x[1] = Val(-4, 1, 0, 1) => ret.val = Num(-4)

C18_Witness ==
    /\ op = "f"
    /\ entry = "Ridge"
    /\ x = <<Val(-4, 1, 0, 1), Num(6), NAN>>
    /\ ret = Ok(Num(-4))

\* C19: the index-loop variant of lib.rs and the iterator variant of
\* single.rs agree on the nine entries they share.  On every input of length
\* >= 1 the two f return the same value, for every n the two minimizer(n)
\* return the same vector, and the two MINIMUM are the same constant.
C19_VariantsAgree ==
    /\ lib_SingleObjective = SingleObjective \cap NDimensional
    /\ \A F \in lib_SingleObjective : lib_MINIMUM(F) = MINIMUM(F)
    /\ (op = "f" /\ entry \in lib_SingleObjective /\ Len(x) >= 1) =>
          /\ ret.err = "none"
          /\ lib_f(entry, x, env) = ret
    /\ (op = "minimizer" /\ entry \in lib_SingleObjective) =>
          lib_minimizer(entry, d) = ret

C19_Witness ==
    /\ op = "f"
    /\ entry = "Zakharov"
    /\ x = <<Num(1), Num(1)>>
    /\ ret = Ok(Rat(37, 16))
    /\ lib_f(entry, x, env) = Ok(Rat(37, 16))

=============================================================================
